---- MODULE Spec2Model ----
(***************************************************************************)
(* HoistIntoGlobalsPass (iree/compiler/Dialect/Util/Transforms).           *)
(*                                                                         *)
(* The module under transformation holds one region with operations: the   *)
(* body of a function or the body of an initializer, a single block.  A    *)
(* value is a pair <<op, result index>>.  The pass walks the block, hoists *)
(* escaping const-expr values into globals + initializers, and finally     *)
(* sweeps dead const-expr operations.                                      *)
(*                                                                         *)
(* The CUDA native executable (runtime/src/iree/hal/drivers/cuda) is the   *)
(* second component: its create, destroy and entry_point_kernel_params are *)
(* modelled over variables of their own, further down.                     *)
(***************************************************************************)
EXTENDS Integers, Sequences, FiniteSets, TLC

\* Number of operations of the input function after the leading constant.
MaxOps == 3
\* Largest number of operands of an input operation.
MaxOperands == 2
\* Largest number of results of an input operation.
MaxResults == 2

VARIABLES
  input,        \* the operations before the pass, the analysis and the policy oracles
  inputBlock,   \* the block that holds them: 0 the function's, 1 an initializer's
  ops,          \* every operation ever created: id -> record
  erased,       \* ids of the operations erased from their block
  funcBody,     \* the function's block: sequence of op ids
  initBody,     \* the initializers' entry blocks: initializer id -> sequence of op ids
  module,       \* the module body: sequence of top-level items
  hoistedMap,   \* HoistedValueMap: original value -> global
  pc,           \* position of the pass
  iterOp,       \* index in the walked block of the operation the walk is at
  resIdx,       \* result of iterOp whose uses are iterated
  uses,         \* the snapshot of uses still to iterate
  allOps,       \* cleanupDeadOps: the working set
  worklist,     \* cleanupDeadOps: the scan's remaining worklist
  madeChanges,  \* cleanupDeadOps: the loop flag
  scans,        \* cleanupDeadOps: iterations of the while loop begun so far
  rewritten,    \* record of every operand->set(load): <<owner, index, old value, load>>
  executable_params, \* create's argument: the flatbuffer's vectors and the pipeline layouts
  executable,   \* create's pointer to the iree_hal_cuda_native_executable_t, or NULL
  heap,         \* the host allocator's live blocks: address -> the struct's fields
  out_executable,    \* *out_executable
  status,       \* create's status
  at,           \* position of create
  index,        \* create's loop variable i
  calls,        \* the calls made into the allocator, the CUDA driver and the HAL, in order
  entry_point,  \* entry_point_kernel_params' argument
  out_params,   \* *out_params
  query_status  \* entry_point_kernel_params' status

vars == <<input, inputBlock, ops, erased, funcBody, initBody, module, hoistedMap, pc, iterOp,
          resIdx, uses, allOps, worklist, madeChanges, scans, rewritten,
          executable_params, executable, heap, out_executable, status, at, index, calls,
          entry_point, out_params, query_status>>

cudaVars == <<executable_params, executable, heap, out_executable, status, at, index, calls,
              entry_point, out_params, query_status>>

\* The null pointer, and what stands where nothing was written yet.
NULL == 0
Unset == "unset"

\* No executable is being created.
NoExecutable ==
  /\ executable_params = Unset
  /\ executable = NULL
  /\ heap = <<>>
  /\ out_executable = NULL
  /\ status = Unset
  /\ at = "off"
  /\ index = 0
  /\ calls = <<>>
  /\ entry_point = 0
  /\ out_params = Unset
  /\ query_status = Unset

\* ------------------------------------------------------------------------
\* Small helpers on sequences and functions.

Range(s) == {s[i] : i \in DOMAIN s}

IndexOf(s, x) == CHOOSE i \in DOMAIN s : s[i] = x

InsertBefore(s, x, new) ==
  LET i == IndexOf(s, x)
  IN SubSeq(s, 1, i - 1) \o <<new>> \o SubSeq(s, i, Len(s))

Remove(s, x) == SelectSeq(s, LAMBDA y : y # x)

\* ------------------------------------------------------------------------
\* Operations.

\* An operation record.  kind "op" is an ordinary operation whose meaning is
\* named by fn (a clone keeps the fn of its source); "load", "store" are the
\* global accessors, "return" the initializer terminator.  parent is 0 for the
\* function's block and k for the entry block of initializer k.
Op(kind, fn, operands, nres, global, parent) ==
  [kind |-> kind, fn |-> fn, operands |-> operands, nres |-> nres,
   global |-> global, parent |-> parent]

Results(o, id) == {<<id, r>> : r \in 1..o[id].nres}

\* The operations currently in some block.
LiveOps(o, e) == (DOMAIN o) \ e

\* Value::getUses over the whole module: the operands that refer to v.
UsesOf(o, e, v) ==
  {<<id, k>> \in UNION {{<<id, k>> : k \in DOMAIN o[id].operands} : id \in LiveOps(o, e)} :
      o[id].operands[k] = v}

\* A use_empty that looks at the first result only.
UseEmpty_FirstResult(o, e, id) == o[id].nres = 0 \/ UsesOf(o, e, <<id, 1>>) = {}

\* Operation::use_empty: no result of the operation has a use.
UseEmpty(o, e, id) == \A v \in Results(o, id) : UsesOf(o, e, v) = {}

\* ------------------------------------------------------------------------
\* Input modules, the const-expr analysis and the policy oracles.
\*
\* An input operation is described by its class, its operands, its number of
\* results and the operand positions the operand policy rejects:
\*   "root"     const-expr, isRoot        (a constant; no operands)
\*   "leaf"     const-expr, not root, accepted by isHoistableConstExprLeaf
\*   "nonleaf"  const-expr, not root, rejected by isHoistableConstExprLeaf
\*   "rt"       not const-expr            (a runtime consumer)

ConstClasses == {"root", "leaf", "nonleaf"}

Key(v) == v[1] * (MaxResults + 1) + v[2]

\* The non-empty operand lists of at most n values drawn from vals, in
\* non-decreasing order.
RECURSIVE OperandLists(_, _)
OperandLists(vals, n) ==
  IF n = 0 THEN {<<>>}
  ELSE LET S == OperandLists(vals, n - 1)
       IN S \cup {Append(s, v) : s \in {t \in S : Len(t) = n - 1},
                                 v \in vals}

Sorted(s) == \A i \in 1..(Len(s) - 1) : Key(s[i]) <= Key(s[i + 1])

ValuesIn(p) == UNION {{<<i, r>> : r \in 1..p[i].nres} : i \in DOMAIN p}
ConstValuesIn(p) == {v \in ValuesIn(p) : p[v[1]].cls \in ConstClasses}

\* The operand positions at which the driver may consult the operand policy:
\* the producer is an accepted leaf and the consumer is not.
Consulted(p, operands) == {k \in DOMAIN operands : p[operands[k][1]].cls = "leaf"}

Descr(cls, operands, nres, rej) ==
  [cls |-> cls, operands |-> operands, nres |-> nres, rej |-> rej]

\* The operations that may follow the operations p.  A leaf has several
\* operands or several results, not both; a nonleaf has one operand and one
\* result; a runtime consumer has operands and no result.
Lists(vals, n) == {s \in OperandLists(vals, n) : s # <<>> /\ Sorted(s)}

NextOps(p) ==
        {Descr("leaf", s, 1, {}) : s \in Lists(ConstValuesIn(p), MaxOperands)}
   \cup {Descr("leaf", s, n, {}) : s \in Lists(ConstValuesIn(p), 1), n \in 1..MaxResults}
   \cup UNION {{Descr("nonleaf", s, 1, rej) : rej \in SUBSET Consulted(p, s)} :
                 s \in Lists(ConstValuesIn(p), 1)}
   \cup UNION {{Descr("rt", s, 0, rej) : rej \in SUBSET Consulted(p, s)} :
                 s \in Lists(ValuesIn(p), MaxOperands)}

RECURSIVE Programs(_)
Programs(n) ==
  IF n = 0 THEN {<<Descr("root", <<>>, 1, {})>>}
  ELSE UNION {{Append(p, d) : d \in NextOps(p)} : p \in Programs(n - 1)}

\* ConstExprAnalysis::lookup: the info of an operation, NoInfo for null.
NoInfo == [known |-> FALSE, isRoot |-> FALSE, isConstExpr |-> FALSE]

lookup(in, id) ==
  IF id \in DOMAIN in /\ in[id].cls \in ConstClasses
  THEN [known |-> TRUE, isRoot |-> in[id].cls = "root", isConstExpr |-> TRUE]
  ELSE NoInfo

isHoistableConstExprLeaf(in, id) == id \in DOMAIN in /\ in[id].cls = "leaf"

isHoistableConstExprConsumingOperand(in, operand) ==
  ~(operand[1] \in DOMAIN in /\ operand[2] \in in[operand[1]].rej)

\* ConstExprAnalysis::populateConstExprOperations.
populateConstExprOperations(in) == {id \in DOMAIN in : lookup(in, id).isConstExpr}

\* The operations of the input block b; an initializer's block ends with
\* its terminator.
InputOps(in, b) ==
  [id \in DOMAIN in |-> Op("op", id, in[id].operands, in[id].nres, 0, b)]
    \o (IF b = 0 THEN <<>> ELSE <<Op("return", 0, <<>>, 0, 0, b)>>)

\* ------------------------------------------------------------------------
\* The module body.

GlobalItem(g) == [t |-> "global", id |-> g]
InitializerItem(i) == [t |-> "initializer", id |-> i]
FuncItem == [t |-> "func", id |-> 0]

Globals(m) == {m[i].id : i \in {j \in DOMAIN m : m[j].t = "global"}}

\* A builder at the end of the module body for the globals.
InsertAtModuleBegin_AtEnd(m, items) == m \o items

\* getModuleBeginBuilder + create: the new items go in front of the first
\* item the module had when the builder was made, in creation order.
InsertAtModuleBegin(m, items) == items \o m

\* getModuleEndBuilder + create.
InsertAtModuleEnd(m, item) == Append(m, item)

\* A symbol table that does not rename on a collision.
UniqueSymbol_NoRename(m) == 1

\* SymbolTable::insert: a symbol no global of the module has.
UniqueSymbol(m) == Cardinality(Globals(m)) + 1

\* ------------------------------------------------------------------------
\* mlir::getBackwardSlice: the transitive producers of an operation, each
\* after its own producers (depth first over the operands), without the
\* operation itself.

RECURSIVE getBackwardSliceImpl(_, _, _)
RECURSIVE SliceOperands(_, _, _, _)
SliceOperands(o, operands, k, acc) ==
  IF k > Len(operands) THEN acc
  ELSE LET def == operands[k][1]
           acc1 == IF def \in Range(acc) THEN acc ELSE getBackwardSliceImpl(o, def, acc)
       IN SliceOperands(o, operands, k + 1, acc1)

getBackwardSliceImpl(o, id, acc) ==
  LET acc1 == SliceOperands(o, o[id].operands, 1, acc)
  IN IF id \in Range(acc1) THEN acc1 ELSE Append(acc1, id)

getBackwardSlice(o, id) == Remove(getBackwardSliceImpl(o, id, <<>>), id)

\* ------------------------------------------------------------------------
\* cloneConstExprInto.  The builder state st is [ops, body, cloneMap]: every
\* operation so far, the initializer's entry block and the
\* BlockAndValueMapping.

\* BlockAndValueMapping::lookupOrDefault.
lookupOrDefault(cloneMap, v) == IF v \in DOMAIN cloneMap THEN cloneMap[v] ELSE v

\* BlockAndValueMapping::map for each pair of news.
MapAll(cloneMap, news) ==
  [v \in (DOMAIN cloneMap) \cup (DOMAIN news) |->
     IF v \in DOMAIN news THEN news[v] ELSE cloneMap[v]]

\* initBuilder.create / initBuilder.insert: append to the entry block.
InsertOp(st, op, news) ==
  [ops |-> Append(st.ops, op),
   body |-> Append(st.body, Len(st.ops) + 1),
   cloneMap |-> MapAll(st.cloneMap, news)]

\* A clone that keeps the operands of its source.
CloneOp_NoRemap(st, src, parent) ==
  LET s == st.ops[src]
      id == Len(st.ops) + 1
      c == Op(s.kind, s.fn, s.operands, s.nres, s.global, parent)
  IN InsertOp(st, c, [v \in Results(st.ops, src) |-> <<id, v[2]>>])

\* Operation::clone(mapper): operands remapped with lookupOrDefault, and the
\* source's results mapped to the clone's.
CloneOp(st, src, parent) ==
  LET s == st.ops[src]
      id == Len(st.ops) + 1
      c == Op(s.kind, s.fn,
              [k \in DOMAIN s.operands |-> lookupOrDefault(st.cloneMap, s.operands[k])],
              s.nres, s.global, parent)
  IN InsertOp(st, c, [v \in Results(st.ops, src) |-> <<id, v[2]>>])

\* The results of src the loop of lines 173-179 finds hoisted before it
\* breaks: the longest hoisted prefix of the results.
HoistedPrefix(o, hm, src) ==
  Cardinality({k \in 1..o[src].nres : \A r \in 1..k : <<src, r>> \in DOMAIN hm})

\* Lines 173-179: one load per hoisted result, mapped in place of the result.
RECURSIVE LoadHoistedResults(_, _, _, _, _, _)
LoadHoistedResults(st, hm, src, r, n, parent) ==
  IF r > n THEN st
  ELSE LET id == Len(st.ops) + 1
           load == Op("load", 0, <<>>, 1, hm[<<src, r>>], parent)
       IN LoadHoistedResults(InsertOp(st, load, (<<src, r>> :> <<id, 1>>)),
                             hm, src, r + 1, n, parent)

\* A loop body that clones every member of the slice.
CloneSliceOp_AlwaysClone(st, hm, src, parent) == CloneOp(st, src, parent)

\* Lines 166-186: the body of the loop over the slice.
CloneSliceOp(st, hm, src, parent) ==
  LET n == HoistedPrefix(st.ops, hm, src)
      needsClone == n = 0
  IN IF needsClone THEN CloneOp(st, src, parent)
     ELSE LoadHoistedResults(st, hm, src, 1, n, parent)

RECURSIVE CloneSlice(_, _, _, _, _)
CloneSlice(st, hm, slice, k, parent) ==
  IF k > Len(slice) THEN st
  ELSE CloneSlice(CloneSliceOp(st, hm, slice[k], parent), hm, slice, k + 1, parent)

\* A cloner that makes a global for the first result of the root only.
RECURSIVE StoreResults_FirstOnly(_, _, _, _)
StoreResults_FirstOnly(gs, m, rootOp, r) ==
  IF r > 1 THEN gs
  ELSE LET origResult == <<rootOp, r>>
           clonedResult == gs.cloneMap[origResult]
           globalOp == UniqueSymbol(m) + Len(gs.globals)
           store == Op("store", 0, <<clonedResult>>, 0, globalOp, gs.parent)
       IN StoreResults_FirstOnly(
            [gs EXCEPT !.ops = Append(@, store),
                       !.body = Append(@, Len(gs.ops) + 1),
                       !.hoistedMap = MapAll(@, (origResult :> globalOp)),
                       !.globals = Append(@, GlobalItem(globalOp))],
            m, rootOp, r + 1)

\* Lines 195-209: a global, a memo entry and a store for each result of the
\* root.  gs is [ops, body, cloneMap, hoistedMap, globals, parent].
RECURSIVE StoreResults(_, _, _, _)
StoreResults(gs, m, rootOp, r) ==
  IF r > gs.ops[rootOp].nres THEN gs
  ELSE LET origResult == <<rootOp, r>>
           clonedResult == gs.cloneMap[origResult]
           globalOp == UniqueSymbol(m) + Len(gs.globals)
           store == Op("store", 0, <<clonedResult>>, 0, globalOp, gs.parent)
       IN StoreResults(
            [gs EXCEPT !.ops = Append(@, store),
                       !.body = Append(@, Len(gs.ops) + 1),
                       !.hoistedMap = MapAll(@, (origResult :> globalOp)),
                       !.globals = Append(@, GlobalItem(globalOp))],
            m, rootOp, r + 1)

\* Line 192: the state of the builders once the root is cloned.
WithGlobals(st, hm, parent) ==
  [ops |-> st.ops, body |-> st.body, cloneMap |-> st.cloneMap,
   hoistedMap |-> hm, globals |-> <<>>, parent |-> parent]

\* A cloner that leaves the entry block without its terminator.
Terminate_NoReturn(gs, m) ==
  [ops |-> gs.ops, body |-> gs.body, hoistedMap |-> gs.hoistedMap,
   module |-> InsertAtModuleBegin(m, gs.globals)]

\* Line 211: the terminator; the globals are in front of the module.
Terminate(gs, m) ==
  [ops |-> Append(gs.ops, Op("return", 0, <<>>, 0, 0, gs.parent)),
   body |-> Append(gs.body, Len(gs.ops) + 1),
   hoistedMap |-> gs.hoistedMap,
   module |-> InsertAtModuleBegin(m, gs.globals)]

\* cloneConstExprInto: [ops, body, hoistedMap, module] after the call.
cloneConstExprInto(o, m, hm, initializerOp, constExprValue) ==
  Terminate(
    StoreResults(
      WithGlobals(
        CloneOp(CloneSlice([ops |-> o, body |-> <<>>, cloneMap |-> <<>>], hm,
                           getBackwardSlice(o, constExprValue[1]), 1, initializerOp),
                constExprValue[1], initializerOp),
        hm, initializerOp),
      m, constExprValue[1], 1),
    m)

\* ------------------------------------------------------------------------
\* The pass.

\* The block k of the input module whose operations are in block b.
InputBody(in, k, b) == IF k = b THEN [i \in DOMAIN InputOps(in, b) |-> i] ELSE <<>>

InputInitializers(in, b) == IF b = 0 THEN <<>> ELSE <<InputBody(in, b, b)>>

InputModule(b) == IF b = 0 THEN <<FuncItem>> ELSE <<InitializerItem(b)>>

InitFrom(programs) ==
  /\ input \in programs
  /\ inputBlock \in {0, 1}
  /\ ops = InputOps(input, inputBlock)
  /\ erased = {}
  /\ funcBody = InputBody(input, 0, inputBlock)
  /\ initBody = InputInitializers(input, inputBlock)
  /\ module = InputModule(inputBlock)
  /\ hoistedMap = <<>>
  /\ pc = "walk"
  /\ iterOp = 1
  /\ resIdx = 0
  /\ uses = {}
  /\ allOps = {}
  /\ worklist = {}
  /\ madeChanges = FALSE
  /\ scans = 0
  /\ rewritten = {}
  /\ NoExecutable

Init == InitFrom(Programs(MaxOps))

walkVars == <<pc, iterOp, resIdx, uses>>
sweepVars == <<allOps, worklist, madeChanges, scans>>
irVars == <<ops, erased, funcBody, initBody, module, hoistedMap, rewritten>>

\* The block the walk of line 65 is in.
WalkedBlock == IF inputBlock = 0 THEN funcBody ELSE initBody[inputBlock]

\* A snapshot that holds one use at most.
SnapshotUses_OneUse(r) ==
  LET all == UsesOf(ops, erased, <<WalkedBlock[iterOp], r>>)
  IN IF all = {} THEN {} ELSE {CHOOSE u \in all : TRUE}

\* Value::getUses of result r of the operation the walk is at (lines 81-84).
SnapshotUses(r) == UsesOf(ops, erased, <<WalkedBlock[iterOp], r>>)

\* The walk's guard without the policy check of line 74.
IsHoistableOp_AnyConstExpr(iterOp_) ==
  LET iterInfo == lookup(input, iterOp_)
  IN iterInfo.known /\ ~iterInfo.isRoot /\ iterInfo.isConstExpr

\* Lines 68-74: the operation is a const-expr, no root, and a hoistable leaf.
IsHoistableOp(iterOp_) ==
  LET iterInfo == lookup(input, iterOp_)
  IN /\ iterInfo.known /\ ~iterInfo.isRoot /\ iterInfo.isConstExpr
     /\ isHoistableConstExprLeaf(input, iterOp_)

\* Lines 68-74: the walk passes over an operation that is not a const-expr,
\* is a root, or is no hoistable leaf.
WalkSkip ==
  /\ pc = "walk"
  /\ iterOp <= Len(WalkedBlock)
  /\ ~IsHoistableOp(WalkedBlock[iterOp])
  /\ iterOp' = iterOp + 1
  /\ UNCHANGED <<cudaVars, input, inputBlock, pc, resIdx, uses>>
  /\ UNCHANGED irVars
  /\ UNCHANGED sweepVars

\* Lines 76-84: a hoistable operation; snapshot the uses of its first result.
WalkProcess ==
  /\ pc = "walk"
  /\ iterOp <= Len(WalkedBlock)
  /\ IsHoistableOp(WalkedBlock[iterOp])
  /\ pc' = "uses"
  /\ resIdx' = 1
  /\ uses' = SnapshotUses(1)
  /\ UNCHANGED <<cudaVars, input, inputBlock, iterOp>>
  /\ UNCHANGED irVars
  /\ UNCHANGED sweepVars

\* A driver that takes no use for an internal edge.
TargetIsConstExprLeaf_Never(operand) == FALSE

\* Lines 94-95: the use's owner is a const-expr and an allowed leaf.
TargetIsConstExprLeaf(operand) ==
  LET targetInfo == lookup(input, operand[1])
  IN targetInfo.known /\ targetInfo.isConstExpr
     /\ isHoistableConstExprLeaf(input, operand[1])

\* A driver that never consults the operand policy.
OperandRejected_Never(operand) == FALSE

\* Line 100: the policy rejects the operand as a conversion target.
OperandRejected(operand) == ~isHoistableConstExprConsumingOperand(input, operand)

\* Lines 94-99.
SkipConstExpr ==
  /\ pc = "uses"
  /\ \E operand \in uses :
       /\ TargetIsConstExprLeaf(operand)
       /\ uses' = uses \ {operand}
  /\ UNCHANGED <<cudaVars, input, inputBlock, pc, iterOp, resIdx>>
  /\ UNCHANGED irVars
  /\ UNCHANGED sweepVars

\* Lines 100-104.
SkipInvalidOperand ==
  /\ pc = "uses"
  /\ \E operand \in uses :
       /\ ~TargetIsConstExprLeaf(operand)
       /\ OperandRejected(operand)
       /\ uses' = uses \ {operand}
  /\ UNCHANGED <<cudaVars, input, inputBlock, pc, iterOp, resIdx>>
  /\ UNCHANGED irVars
  /\ UNCHANGED sweepVars

\* Lines 129-138: the value has no global yet; an initializer is appended to
\* the module and the value's expression cloned into it.
Materialize(cl, ib) ==
  [ops |-> cl.ops, initBody |-> Append(ib, cl.body), module |-> cl.module,
   hoistedMap |-> cl.hoistedMap]

\* A rewrite that sets every operand of the owner that has the value.
ConvertToLoad_AllOperands(operand, originalValue, h, fb) ==
  LET targetOp == operand[1]
      ok == originalValue \in DOMAIN h.hoistedMap
      loadId == Len(h.ops) + 1
      parent == h.ops[targetOp].parent
      load == Op("load", 0, <<>>, 1, IF ok THEN h.hoistedMap[originalValue] ELSE 0, parent)
  IN [ops |-> IF ok
              THEN [Append(h.ops, load) EXCEPT ![targetOp].operands =
                      [j \in DOMAIN @ |-> IF @[j] = originalValue THEN <<loadId, 1>> ELSE @[j]]]
              ELSE h.ops,
      funcBody |-> IF ok /\ parent = 0 THEN InsertBefore(fb, targetOp, loadId) ELSE fb,
      initBody |-> IF ok /\ parent # 0
                   THEN [h.initBody EXCEPT ![parent] = InsertBefore(@, targetOp, loadId)]
                   ELSE h.initBody,
      module |-> h.module,
      hoistedMap |-> h.hoistedMap,
      ok |-> ok,
      value |-> originalValue,
      load |-> loadId]

\* Lines 139-147: a load of the value's global in front of the owner, and
\* the operand set to it.  Without a global the assertion fails.
ConvertToLoad(operand, originalValue, h, fb) ==
  LET targetOp == operand[1]
      ok == originalValue \in DOMAIN h.hoistedMap
      loadId == Len(h.ops) + 1
      parent == h.ops[targetOp].parent
      load == Op("load", 0, <<>>, 1, IF ok THEN h.hoistedMap[originalValue] ELSE 0, parent)
  IN [ops |-> IF ok
              THEN [Append(h.ops, load) EXCEPT ![targetOp].operands[operand[2]] = <<loadId, 1>>]
              ELSE h.ops,
      funcBody |-> IF ok /\ parent = 0 THEN InsertBefore(fb, targetOp, loadId) ELSE fb,
      initBody |-> IF ok /\ parent # 0
                   THEN [h.initBody EXCEPT ![parent] = InsertBefore(@, targetOp, loadId)]
                   ELSE h.initBody,
      module |-> h.module,
      hoistedMap |-> h.hoistedMap,
      ok |-> ok,
      value |-> originalValue,
      load |-> loadId]

\* hoistConstExpr without the lookup of line 127: every escape is cloned.
hoistConstExpr_NoLookup(operand, o, fb, ib, m, hm) ==
  ConvertToLoad(operand, o[operand[1]].operands[operand[2]],
    Materialize(
      cloneConstExprInto(o, InsertAtModuleEnd(m, InitializerItem(Len(ib) + 1)),
                         hm, Len(ib) + 1, o[operand[1]].operands[operand[2]]),
      ib),
    fb)

\* hoistConstExpr (lines 122-148): [ops, funcBody, initBody, module,
\* hoistedMap, ok, value, load] after the call on the operand <<owner, index>>.
hoistConstExpr(operand, o, fb, ib, m, hm) ==
  ConvertToLoad(operand, o[operand[1]].operands[operand[2]],
    IF o[operand[1]].operands[operand[2]] \in DOMAIN hm
    THEN [ops |-> o, initBody |-> ib, module |-> m, hoistedMap |-> hm]
    ELSE Materialize(
           cloneConstExprInto(o, InsertAtModuleEnd(m, InitializerItem(Len(ib) + 1)),
                              hm, Len(ib) + 1, o[operand[1]].operands[operand[2]]),
           ib),
    fb)

\* The program after hoistConstExpr returned h for the operand.
Hoisted(operand, h) ==
  /\ ops' = h.ops
  /\ funcBody' = h.funcBody
  /\ initBody' = h.initBody
  /\ module' = h.module
  /\ hoistedMap' = h.hoistedMap
  /\ pc' = IF h.ok THEN "uses" ELSE "abort"
  /\ rewritten' = IF h.ok
                  THEN rewritten \cup {<<operand[1], operand[2], h.value, h.load>>}
                  ELSE rewritten

\* Lines 106-112: a genuine escape.
Hoist ==
  /\ pc = "uses"
  /\ \E operand \in uses :
       /\ ~TargetIsConstExprLeaf(operand)
       /\ ~OperandRejected(operand)
       /\ Hoisted(operand, hoistConstExpr(operand, ops, funcBody, initBody, module, hoistedMap))
       /\ uses' = uses \ {operand}
  /\ UNCHANGED <<cudaVars, input, inputBlock, erased, iterOp, resIdx>>
  /\ UNCHANGED sweepVars

\* Line 79: the next result of the operation.
NextResult ==
  /\ pc = "uses"
  /\ uses = {}
  /\ resIdx < ops[WalkedBlock[iterOp]].nres
  /\ resIdx' = resIdx + 1
  /\ uses' = SnapshotUses(resIdx + 1)
  /\ UNCHANGED <<cudaVars, input, inputBlock, pc, iterOp>>
  /\ UNCHANGED irVars
  /\ UNCHANGED sweepVars

\* Line 116: every result is done.
WalkAdvance ==
  /\ pc = "uses"
  /\ uses = {}
  /\ resIdx >= ops[WalkedBlock[iterOp]].nres
  /\ pc' = "walk"
  /\ iterOp' = iterOp + 1
  /\ UNCHANGED <<cudaVars, input, inputBlock, resIdx, uses>>
  /\ UNCHANGED irVars
  /\ UNCHANGED sweepVars

\* The walk leaves the input block; the operations of the initializers
\* appended behind it have no analysis info.  Lines 119, 215-222:
\* cleanupDeadOps starts.
WalkEnd ==
  /\ pc = "walk"
  /\ iterOp > Len(WalkedBlock)
  /\ \A i \in (DOMAIN initBody) \ {inputBlock} : \A k \in DOMAIN initBody[i] :
        ~lookup(input, initBody[i][k]).known
  /\ pc' = "sweep"
  /\ allOps' = populateConstExprOperations(input)
  /\ worklist' = {}
  /\ madeChanges' = TRUE
  /\ scans' = 0
  /\ UNCHANGED <<cudaVars, input, inputBlock, iterOp, resIdx, uses>>
  /\ UNCHANGED irVars

\* A loop that does not clear madeChanges.
ScanBegin_KeepsFlag ==
  /\ pc = "sweep"
  /\ worklist = {}
  /\ madeChanges
  /\ worklist' = allOps
  /\ scans' = scans + 1
  /\ UNCHANGED <<cudaVars, input, inputBlock, allOps, madeChanges>>
  /\ UNCHANGED walkVars
  /\ UNCHANGED irVars

\* Lines 223-228: a scan starts.
ScanBegin ==
  /\ pc = "sweep"
  /\ worklist = {}
  /\ madeChanges
  /\ madeChanges' = FALSE
  /\ worklist' = allOps
  /\ scans' = scans + 1
  /\ UNCHANGED <<cudaVars, input, inputBlock, allOps>>
  /\ UNCHANGED walkVars
  /\ UNCHANGED irVars

\* Operation::erase: the operation leaves its block.
EraseFrom(body, id) == Remove(body, id)

EraseFromAll(ib, id) == [i \in DOMAIN ib |-> EraseFrom(ib[i], id)]

\* An erasure that leaves madeChanges as it is.
EraseDead_NoFlag ==
  /\ pc = "sweep"
  /\ \E checkOp \in worklist :
       /\ UseEmpty(ops, erased, checkOp)
       /\ allOps' = allOps \ {checkOp}
       /\ erased' = erased \cup {checkOp}
       /\ funcBody' = EraseFrom(funcBody, checkOp)
       /\ initBody' = EraseFromAll(initBody, checkOp)
       /\ worklist' = worklist \ {checkOp}
  /\ UNCHANGED <<cudaVars, input, inputBlock, ops, module, hoistedMap, rewritten, madeChanges, scans>>
  /\ UNCHANGED walkVars

\* Lines 230-237: the scan meets an operation without uses.
EraseDead ==
  /\ pc = "sweep"
  /\ \E checkOp \in worklist :
       /\ UseEmpty(ops, erased, checkOp)
       /\ madeChanges' = TRUE
       /\ allOps' = allOps \ {checkOp}
       /\ erased' = erased \cup {checkOp}
       /\ funcBody' = EraseFrom(funcBody, checkOp)
       /\ initBody' = EraseFromAll(initBody, checkOp)
       /\ worklist' = worklist \ {checkOp}
  /\ UNCHANGED <<cudaVars, input, inputBlock, ops, module, hoistedMap, rewritten, scans>>
  /\ UNCHANGED walkVars

\* Lines 230-231: the scan meets an operation that has a use.
KeepLive ==
  /\ pc = "sweep"
  /\ \E checkOp \in worklist :
       /\ ~UseEmpty(ops, erased, checkOp)
       /\ worklist' = worklist \ {checkOp}
  /\ UNCHANGED <<cudaVars, input, inputBlock, allOps, madeChanges, scans>>
  /\ UNCHANGED walkVars
  /\ UNCHANGED irVars

\* Line 223: a scan made no change; the pass returns.
SweepEnd ==
  /\ pc = "sweep"
  /\ worklist = {}
  /\ ~madeChanges
  /\ pc' = "done"
  /\ UNCHANGED <<cudaVars, input, inputBlock, iterOp, resIdx, uses>>
  /\ UNCHANGED irVars
  /\ UNCHANGED sweepVars

Next ==
  \/ WalkSkip
  \/ WalkProcess
  \/ SkipConstExpr
  \/ SkipInvalidOperand
  \/ Hoist
  \/ NextResult
  \/ WalkAdvance
  \/ WalkEnd
  \/ ScanBegin
  \/ EraseDead
  \/ KeepLive
  \/ SweepEnd

Spec == Init /\ [][Next]_vars

\* The steps other than the call of hoistConstExpr.
Step ==
  \/ WalkSkip
  \/ WalkProcess
  \/ SkipConstExpr
  \/ SkipInvalidOperand
  \/ NextResult
  \/ WalkAdvance
  \/ WalkEnd
  \/ ScanBegin
  \/ EraseDead
  \/ KeepLive
  \/ SweepEnd

\* Lines 94-106: the snapshot holds a use that is a genuine escape.
HoistEnabled ==
  /\ pc = "uses"
  /\ \E operand \in uses : ~TargetIsConstExprLeaf(operand) /\ ~OperandRejected(operand)

\* The pass runs on one thread without suspension: a step that can be taken
\* is taken.  The second conjunct is WF_vars(Hoist) with its ENABLED written
\* as the guard of Hoist.
Fairness ==
  /\ WF_vars(Step)
  /\ ([]<>~HoistEnabled) \/ ([]<><<Hoist>>_vars)

FairSpec == Init /\ [][Next]_vars /\ Fairness

\* ------------------------------------------------------------------------
\* Meaning of values.  The value of result r of an operation named fn applied
\* to arguments args is the term <<fn, r, args>>; Undef is what a load of a
\* global not yet stored, or an operand defined outside the region, yields.

Undef == <<0, 0, <<>>>>

\* The value the input program computes for v.
RECURSIVE OrigTerm(_, _)
OrigTerm(in, v) ==
  <<v[1], v[2], [k \in DOMAIN in[v[1]].operands |-> OrigTerm(in, in[v[1]].operands[k])]>>

Val(vals, x) == IF x \in DOMAIN vals THEN vals[x] ELSE Undef

\* One operation of an initializer body run in env = [vals, globals, reads,
\* uninit]; reads keeps what each load read.
ExecOp(o, env, id) ==
  CASE o[id].kind = "op" ->
         [env EXCEPT !.vals = MapAll(@,
            [v \in Results(o, id) |->
               <<o[id].fn, v[2],
                 [k \in DOMAIN o[id].operands |-> Val(env.vals, o[id].operands[k])]>>])]
    [] o[id].kind = "load" ->
         [env EXCEPT !.vals = MapAll(@, (<<id, 1>> :> Val(env.globals, o[id].global))),
                     !.reads = MapAll(@, (id :> Val(env.globals, o[id].global))),
                     !.uninit = @ \/ o[id].global \notin DOMAIN env.globals]
    [] o[id].kind = "store" ->
         [env EXCEPT !.globals = MapAll(@, (o[id].global :> Val(env.vals, o[id].operands[1])))]
    [] OTHER -> env

RECURSIVE ExecBody(_, _, _, _)
ExecBody(o, env, body, k) ==
  IF k > Len(body) THEN env
  ELSE ExecBody(o, ExecOp(o, env, body[k]), body, k + 1)

\* The initializers of the module m run in module order, from item i on.
RECURSIVE RunModule(_, _, _, _, _)
RunModule(o, ib, m, i, env) ==
  IF i > Len(m) THEN env
  ELSE IF m[i].t = "initializer"
       THEN RunModule(o, ib, m, i + 1,
                      [ExecBody(o, [env EXCEPT !.vals = <<>>], ib[m[i].id], 1)
                         EXCEPT !.vals = <<>>])
       ELSE RunModule(o, ib, m, i + 1, env)

RunInitializers(o, ib, m) ==
  RunModule(o, ib, m, 1, [vals |-> <<>>, globals |-> <<>>, reads |-> <<>>, uninit |-> FALSE])

\* Position of a top-level item in the module body (0 when absent).
Pos(m, item) == IF \E i \in DOMAIN m : m[i] = item
                THEN CHOOSE i \in DOMAIN m : m[i] = item ELSE 0

\* The top-level item whose region holds an operation.
ParentItem(o, id) == IF o[id].parent = 0 THEN FuncItem ELSE InitializerItem(o[id].parent)

\* The operations of a kind that are in a block.
LiveOfKind(o, e, kind) == {id \in LiveOps(o, e) : o[id].kind = kind}

\* The rewritten operands whose original value was v.
SitesOf(v) == {rw \in rewritten : rw[3] = v}

\* The operations the pass created.
IsNew(id) == id > Len(InputOps(input, inputBlock))

\* The stores whose operand is result v[2] of a clone of v's operation.
StoresOf(o, e, v) ==
  {s \in LiveOfKind(o, e, "store") :
     LET x == o[s].operands[1]
     IN o[x[1]].kind = "op" /\ o[x[1]].fn = v[1] /\ x[2] = v[2] /\ IsNew(x[1])}

\* ------------------------------------------------------------------------
\* C1: a value with two or more rewritten escapes has, after the pass,
\* exactly one global and exactly one initializer storing to it, and each of
\* its rewritten escape sites reads its own load of that global.
OneGlobal(v, stores) ==
  /\ Cardinality(stores) = 1
  /\ v \in DOMAIN hoistedMap
  /\ \A s \in stores :
       /\ ops[s].global = hoistedMap[v]
       /\ Cardinality({i \in DOMAIN module : module[i] = GlobalItem(ops[s].global)}) = 1
       /\ Cardinality({i \in DOMAIN module : module[i] = InitializerItem(ops[s].parent)}) = 1
       /\ s \in Range(initBody[ops[s].parent])
  /\ Cardinality({s \in LiveOfKind(ops, erased, "store") : ops[s].global = hoistedMap[v]}) = 1

SiteLoads(v, sites) ==
  /\ \A rw \in sites :
       rw[1] \notin erased =>
         /\ ops[rw[1]].operands[rw[2]] = <<rw[4], 1>>
         /\ ops[rw[4]].kind = "load"
         /\ ops[rw[4]].global = hoistedMap[v]
         /\ rw[4] \notin erased
         /\ UsesOf(ops, erased, <<rw[4], 1>>) = {<<rw[1], rw[2]>>}
  /\ Cardinality({rw[4] : rw \in sites}) = Cardinality(sites)

C1_OneGlobalPerValue ==
  pc = "done" =>
    \A v \in ValuesIn(input) :
      Cardinality(SitesOf(v)) >= 2 =>
        /\ OneGlobal(v, StoresOf(ops, erased, v))
        /\ SiteLoads(v, SitesOf(v))

C1_Witness ==
  /\ pc = "done"
  /\ \E v \in ValuesIn(input) : Cardinality(SitesOf(v)) >= 2

\* ------------------------------------------------------------------------
\* C2: after the pass, with the initializers run in module order, the load
\* at every rewritten operand reads the value the input program computed for
\* that operand.
\* What the load x reads: in an initializer when that initializer runs, in
\* the function once every initializer has run.
ReadAt(env, x) ==
  IF ops[x[1]].kind # "load" THEN Undef
  ELSE IF ops[x[1]].parent = 0 THEN Val(env.globals, ops[x[1]].global)
  ELSE Val(env.reads, x[1])

SitesAgree(env) ==
  \A rw \in rewritten :
    rw[1] \notin erased =>
      ReadAt(env, ops[rw[1]].operands[rw[2]]) = OrigTerm(input, rw[3])

C2_LoadsReadOriginalValue ==
  pc = "done" => SitesAgree(RunInitializers(ops, initBody, module))

\* ------------------------------------------------------------------------
\* C3: in the final module an initializer that loads a global stands, in
\* module order, after the initializer that stores to it, and no initializer
\* run in module order loads a global that is not yet stored.
LoadsFrom(i2, i1) ==
  \E l \in Range(initBody[i2]), s \in Range(initBody[i1]) :
    /\ ops[l].kind = "load" /\ ops[s].kind = "store"
    /\ ops[l].global = ops[s].global

C3_InitializerOrder ==
  pc = "done" =>
    /\ \A i1 \in DOMAIN initBody, i2 \in DOMAIN initBody :
         LoadsFrom(i2, i1) =>
           /\ Pos(module, InitializerItem(i1)) > 0
           /\ Pos(module, InitializerItem(i1)) < Pos(module, InitializerItem(i2))
    /\ ~RunInitializers(ops, initBody, module).uninit

\* ------------------------------------------------------------------------
\* C4: in every state, the global of every load, in an initializer or in
\* the function, stands in the module body before the item holding the load.
C4_GlobalBeforeLoad ==
  \A l \in LiveOfKind(ops, erased, "load") :
    /\ Pos(module, GlobalItem(ops[l].global)) > 0
    /\ Pos(module, GlobalItem(ops[l].global)) < Pos(module, ParentItem(ops, l))

C4_Witness ==
  /\ \E l \in LiveOfKind(ops, erased, "load") : ops[l].parent # 0
  /\ \E l \in LiveOfKind(ops, erased, "load") : ops[l].parent = 0
  /\ Len(module) >= 5

\* ------------------------------------------------------------------------
\* Internal edges: operand k of an accepted leaf b, fed by a const-expr.

LeafOps == {b \in DOMAIN input : input[b].cls = "leaf"}

\* The clones of the input operation b in the initializers.
ClonesOf(b) == {c \in LiveOfKind(ops, erased, "op") : ops[c].fn = b /\ IsNew(c)}

Before(body, x, y) ==
  \E i \in DOMAIN body, j \in DOMAIN body : body[i] = x /\ body[j] = y /\ i < j

\* Operand k of the clone c is the result, cloned earlier into the same
\* initializer, of the operation that defines v.
DirectDependency(c, k, v) ==
  LET x == ops[c].operands[k]
  IN /\ ops[x[1]].kind = "op" /\ ops[x[1]].fn = v[1] /\ x[2] = v[2]
     /\ ops[x[1]].parent = ops[c].parent
     /\ Before(initBody[ops[c].parent], x[1], c)

\* Operand k of the clone c is a load, in the same initializer, of the
\* global of v.
LoadOfGlobal(c, k, v) ==
  LET x == ops[c].operands[k]
  IN /\ ops[x[1]].kind = "load"
     /\ v \in DOMAIN hoistedMap /\ ops[x[1]].global = hoistedMap[v]
     /\ ops[x[1]].parent = ops[c].parent
     /\ Before(initBody[ops[c].parent], x[1], c)

NotRewritten(b, k) ==
  /\ ops[b].operands[k] = input[b].operands[k]
  /\ \A rw \in rewritten : ~(rw[1] = b /\ rw[2] = k)

\* C5 as stated: an operand of an accepted leaf fed by a const-expr is never
\* rewritten, and in every clone of the leaf it is the cloned result of its
\* producer, never a load of a global.
C5_InternalEdgeAlwaysDirect ==
  \A b \in LeafOps : \A k \in DOMAIN input[b].operands :
    /\ NotRewritten(b, k)
    /\ \A c \in ClonesOf(b) : DirectDependency(c, k, input[b].operands[k])

\* C5 amended: an operand of an accepted leaf fed by a const-expr is never
\* rewritten in the function; in every clone of the leaf it is the cloned
\* result of its producer when the producer's value has no global, and a
\* load of that global, in the same initializer, when it has one.
C5_InternalEdgeDirectOrMemoLoad ==
  \A b \in LeafOps : \A k \in DOMAIN input[b].operands :
    /\ NotRewritten(b, k)
    /\ \A c \in ClonesOf(b) :
         IF input[b].operands[k] \in DOMAIN hoistedMap
         THEN LoadOfGlobal(c, k, input[b].operands[k])
         ELSE DirectDependency(c, k, input[b].operands[k])

C5_Witness ==
  /\ pc = "done"
  /\ \E b \in LeafOps : \E k \in DOMAIN input[b].operands : \E c \in ClonesOf(b) :
       LoadOfGlobal(c, k, input[b].operands[k])
  /\ \E b \in LeafOps : \E k \in DOMAIN input[b].operands : \E c \in ClonesOf(b) :
       DirectDependency(c, k, input[b].operands[k])

\* ------------------------------------------------------------------------
\* C6: in every state either all results of an operation are keys of the
\* memo table or none is, and the N results of a hoisted operation have N
\* globals, each stored once, all by one initializer from one clone.
StoresTo(g) == {s \in LiveOfKind(ops, erased, "store") : ops[s].global = g}

HoistedTogether(id) ==
  /\ Cardinality({hoistedMap[v] : v \in Results(ops, id)}) = ops[id].nres
  /\ Cardinality(UNION {{ops[s].global : s \in StoresOf(ops, erased, v)} :
                          v \in Results(ops, id)}) = ops[id].nres
  /\ Cardinality(ClonesOf(id) \cap
                 {ops[s].operands[1][1] : s \in LiveOfKind(ops, erased, "store")}) = 1
  /\ \E i \in DOMAIN initBody : \E c \in Range(initBody[i]) :
       /\ ops[c].kind = "op" /\ ops[c].fn = id /\ IsNew(c)
       /\ \A v \in Results(ops, id) :
            /\ Cardinality({j \in DOMAIN module : module[j] = GlobalItem(hoistedMap[v])}) = 1
            /\ Cardinality(StoresTo(hoistedMap[v])) = 1
            /\ \A s \in StoresTo(hoistedMap[v]) :
                 /\ s \in Range(initBody[i])
                 /\ ops[s].operands[1] = <<c, v[2]>>

C6_AtomicMultiResult ==
  \A id \in DOMAIN input :
    \/ Results(ops, id) \cap DOMAIN hoistedMap = {}
    \/ /\ Results(ops, id) \subseteq DOMAIN hoistedMap
       /\ HoistedTogether(id)

C6_Witness ==
  /\ pc = "done"
  /\ \E id \in DOMAIN input :
       /\ ops[id].nres >= 2
       /\ Results(ops, id) \subseteq DOMAIN hoistedMap
       /\ \E rw \in rewritten : rw[3] = <<id, 2>>
       /\ \A rw \in rewritten : rw[3] # <<id, 1>>

\* ------------------------------------------------------------------------
\* Operands the operand policy rejects.
RejectedOperands == {<<b, k>> \in UNION {{<<b, k>> : k \in input[b].rej} : b \in DOMAIN input} : TRUE}

\* C7 as stated: an operand the policy rejects still refers to the original
\* value after the pass, has no load, and the operation defining that value
\* is still in the program.
C7_RejectedOperandKeepsProducer ==
  pc = "done" =>
    \A site \in RejectedOperands :
      /\ NotRewritten(site[1], site[2])
      /\ input[site[1]].operands[site[2]][1] \notin erased

\* C7 amended: an operand the policy rejects is never rewritten and gets no
\* load; while its owner is in the program it refers to the original value,
\* whose defining operation is in the program too.  (The owner, when it is a
\* const-expr without uses, is erased by the sweep, and then its producer
\* may be.)
C7_RejectedOperandUntouched ==
  \A site \in RejectedOperands :
    /\ NotRewritten(site[1], site[2])
    /\ site[1] \notin erased => input[site[1]].operands[site[2]][1] \notin erased

C7_Witness ==
  /\ pc = "done"
  /\ \E site \in RejectedOperands :
       /\ site[1] \notin erased
       /\ input[site[1]].operands[site[2]] \in DOMAIN hoistedMap
  /\ \E site \in RejectedOperands : site[1] \in erased

\* ------------------------------------------------------------------------
\* The const-expr operations of the input without uses, and those left
\* without uses once these are gone.
HasUse(o, e, id) ==
  \E c \in (DOMAIN o) \ e : \E k \in DOMAIN o[c].operands : o[c].operands[k][1] = id

RECURSIVE DeadClosure(_, _, _)
DeadClosure(o, S, e) ==
  IF \E id \in S \ e : ~HasUse(o, e, id)
  THEN DeadClosure(o, S, e \cup {id \in S \ e : ~HasUse(o, e, id)})
  ELSE e

\* A block without the operations e.
Kept(body, e) == SelectSeq(body, LAMBDA id : id \notin e)

KeptAll(ib, e) == [i \in DOMAIN ib |-> Kept(ib[i], e)]

InputDead ==
  DeadClosure(InputOps(input, inputBlock), populateConstExprOperations(input), {})

NoLeaf == LeafOps = {}

\* C8 as stated: without a hoistable const-expr the module after the pass
\* has the operations and operands it had before.
C8_IdentityWithoutLeaf ==
  (pc = "done" /\ NoLeaf) =>
    /\ ops = InputOps(input, inputBlock)
    /\ erased = {}
    /\ funcBody = InputBody(input, 0, inputBlock)
    /\ initBody = InputInitializers(input, inputBlock)
    /\ module = InputModule(inputBlock)

\* C8 amended: without a hoistable const-expr the pass creates no global,
\* initializer or load and changes no operand; it erases the const-expr
\* operations that have no use on entry or lose their last use to such an
\* erasure, and nothing else, so it is the identity exactly when no
\* const-expr operation of the input is without uses.
C8_OnlyDeadErasedWithoutLeaf ==
  NoLeaf =>
    /\ ops = InputOps(input, inputBlock)
    /\ module = InputModule(inputBlock)
    /\ hoistedMap = <<>>
    /\ rewritten = {}
    /\ funcBody = Kept(InputBody(input, 0, inputBlock), erased)
    /\ initBody = KeptAll(InputInitializers(input, inputBlock), erased)
    /\ erased \subseteq InputDead
    /\ pc = "done" => erased = InputDead

C8_Witness ==
  /\ pc = "done"
  /\ NoLeaf
  /\ erased = {}
  /\ \E id \in DOMAIN input : input[id].cls = "nonleaf"

\* ------------------------------------------------------------------------
\* C9: when cleanupDeadOps has returned, every operation of the working set
\* still in the program has a use.
C9_NoDeadConstExprLeft ==
  pc = "done" =>
    \A id \in populateConstExprOperations(input) \ erased : HasUse(ops, erased, id)

C9_Witness ==
  /\ pc = "done"
  /\ rewritten # {}
  /\ \E a \in erased, b \in erased :
       /\ input[a].cls = "leaf"
       /\ \E k \in DOMAIN input[b].operands : input[b].operands[k][1] = a
  /\ populateConstExprOperations(input) \ erased # {}

\* ------------------------------------------------------------------------
\* C10: the sweep erases an operation only when it has no use and changes
\* nothing else, so no operand of an operation in the program refers to an
\* erased operation, and the operations it leaves are in place as they were.
NoDanglingOperand ==
  \A id \in LiveOps(ops, erased) : \A k \in DOMAIN ops[id].operands :
    ops[id].operands[k][1] \notin erased

SweepStep ==
  pc = "sweep" =>
    /\ ops' = ops
    /\ module' = module
    /\ erased \subseteq erased'
    /\ \A id \in erased' \ erased : ~HasUse(ops, erased, id)
    /\ funcBody' = Kept(funcBody, erased')
    /\ initBody' = KeptAll(initBody, erased')

C10_SweepErasesOnlyUnused == [][SweepStep]_vars /\ []NoDanglingOperand

C10_Witness ==
  /\ pc = "done"
  /\ erased # {}
  /\ \E id \in populateConstExprOperations(input) \ erased :
       /\ input[id].cls = "leaf"
       /\ HasUse(ops, erased, id)
       /\ Results(ops, id) \cap DOMAIN hoistedMap # {}

\* ------------------------------------------------------------------------
\* The initializers and the globals the pass created.
NewInitializers == (DOMAIN initBody) \ (DOMAIN InputInitializers(input, inputBlock))

GlobalsKept == Globals(module) \subseteq Globals(module')

OneStorePerGlobal ==
  \A g \in Globals(module) :
    /\ Cardinality(StoresTo(g)) = 1
    /\ \A s \in StoresTo(g) :
         /\ ops[s].parent \in NewInitializers
         /\ Cardinality({j \in DOMAIN module : module[j] = InitializerItem(ops[s].parent)}) = 1
         /\ Cardinality({i \in DOMAIN initBody : s \in Range(initBody[i])}) = 1
         /\ s \in Range(initBody[ops[s].parent])
         /\ s \notin Range(funcBody)

InitializerComplete(i) ==
  /\ initBody[i] # <<>>
  /\ ops[initBody[i][Len(initBody[i])]].kind = "return"
  /\ \A k \in 1..(Len(initBody[i]) - 1) : ops[initBody[i][k]].kind # "return"
  /\ \E k \in DOMAIN initBody[i] :
       /\ ops[initBody[i][k]].kind = "store"
       /\ ops[initBody[i][k]].global \in Globals(module)

\* C11: every global has exactly one store in the final module, inside
\* exactly one initializer; no step of the pass removes a global; every
\* initializer the pass created stores to a global and ends with its
\* terminator.
C11_GlobalStoredOnce ==
  /\ [][GlobalsKept]_vars
  /\ [](Range(hoistedMap) = Globals(module))
  /\ [](pc = "done" => OneStorePerGlobal)
  /\ [](\A i \in NewInitializers : InitializerComplete(i))

C11_Witness ==
  /\ pc = "done"
  /\ Cardinality(NewInitializers) >= 2
  /\ Cardinality(Globals(module)) > Cardinality(NewInitializers)
  /\ erased # {}

\* ------------------------------------------------------------------------
\* C12: the sweep ends: every scan but the last erases an operation, so at
\* most one scan more than the working set has operations is begun, and the
\* pass, walk and sweep, runs to completion.
ScansBounded ==
  /\ scans <= Cardinality(erased) + 1
  /\ scans <= Cardinality(populateConstExprOperations(input)) + 1
  /\ (pc = "sweep" /\ scans >= 1 /\ ~madeChanges) => scans <= Cardinality(erased) + 1
  /\ (pc = "sweep" /\ scans >= 1 /\ madeChanges) => scans <= Cardinality(erased)

C12_SweepTerminates == []ScansBounded /\ <>(pc = "done")

C12_Witness ==
  /\ pc = "done"
  /\ scans >= 3
  /\ scans = Cardinality(erased) + 1
  /\ populateConstExprOperations(input) \ erased # {}

\* ------------------------------------------------------------------------
\* The genuine escapes of the input operation x: the operands that refer to
\* a result of x, whose owner is no accepted const-expr leaf and which the
\* operand policy accepts.
GenuineEscapes(x) ==
  {site \in UNION {{<<b, k>> : k \in DOMAIN input[b].operands} : b \in DOMAIN input} :
     /\ input[site[1]].operands[site[2]][1] = x
     /\ input[site[1]].cls # "leaf"
     /\ site[2] \notin input[site[1]].rej}

HoistableInput(x) ==
  /\ x \in DOMAIN input
  /\ input[x].cls \in ConstClasses
  /\ input[x].cls # "root"
  /\ input[x].cls = "leaf"
  /\ GenuineEscapes(x) # {}

\* C13: every key of the memo table, and so every global, belongs to a
\* result of an operation that is const-expr, no root, an accepted leaf and
\* has a genuine escape; the producers of such an operation that have no
\* escape of their own get no global and are only cloned.
C13_GlobalsOnlyForEscapingLeaves ==
  /\ \A v \in DOMAIN hoistedMap : HoistableInput(v[1])
  /\ Globals(module) = Range(hoistedMap)
  /\ \A x \in DOMAIN input :
       ~HoistableInput(x) => Results(ops, x) \cap DOMAIN hoistedMap = {}

C13_Witness ==
  /\ pc = "done"
  /\ \E a \in LeafOps, b \in LeafOps :
       /\ \E k \in DOMAIN input[b].operands : input[b].operands[k][1] = a
       /\ GenuineEscapes(a) = {}
       /\ Results(ops, b) \cap DOMAIN hoistedMap # {}
       /\ Results(ops, a) \cap DOMAIN hoistedMap = {}
       /\ \E c \in ClonesOf(a), d \in ClonesOf(b) : ops[c].parent = ops[d].parent

\* ------------------------------------------------------------------------
\* The genuine escapes of the input.
AllGenuineEscapes == UNION {GenuineEscapes(x) : x \in LeafOps}

RewrittenSites == {<<rw[1], rw[2]>> : rw \in rewritten}

\* C14: once the walk is over every genuine escape is rewritten, once: no
\* operand in the module refers to a result of an accepted const-expr leaf
\* unless its owner is an accepted leaf or the operand policy rejects it, and
\* the rewritten operands are the genuine escapes, one load each.
C14_EveryEscapeRewritten ==
  /\ pc \in {"sweep", "done"} =>
       /\ RewrittenSites = AllGenuineEscapes
       /\ \A id \in LiveOps(ops, erased) : \A k \in DOMAIN ops[id].operands :
            ops[id].operands[k][1] \in LeafOps =>
              /\ id \in DOMAIN input
              /\ input[id].cls = "leaf" \/ k \in input[id].rej
  /\ Cardinality(rewritten) = Cardinality(RewrittenSites)
  /\ Cardinality({rw[4] : rw \in rewritten}) = Cardinality(rewritten)
  /\ \A rw \in rewritten : rw[3] = input[rw[1]].operands[rw[2]]

C14_Witness ==
  /\ pc = "done"
  /\ \E rw1 \in rewritten, rw2 \in rewritten :
       rw1[1] = rw2[1] /\ rw1[2] # rw2[2] /\ rw1[3] = rw2[3]
  /\ \E rw1 \in rewritten, rw2 \in rewritten : rw1[1] # rw2[1]

\* ------------------------------------------------------------------------
\* One step of the pass as the memo table sees it.
MemoStep ==
  /\ \A v \in DOMAIN hoistedMap : v \in DOMAIN hoistedMap' /\ hoistedMap'[v] = hoistedMap[v]
  /\ rewritten' = rewritten => hoistedMap' = hoistedMap
  /\ \A rw \in rewritten' \ rewritten :
       (DOMAIN hoistedMap') \ (DOMAIN hoistedMap) =
         IF rw[3] \in DOMAIN hoistedMap THEN {} ELSE Results(ops, rw[3][1])

MemoInjective ==
  \A v \in DOMAIN hoistedMap, w \in DOMAIN hoistedMap :
    v # w => hoistedMap[v] # hoistedMap[w]

\* C15: no step removes or remaps an entry of the memo table; distinct
\* values have distinct globals; a call of cloneConstExprInto adds the
\* results of its root as keys and nothing else, and a call of
\* hoistConstExpr that finds the value adds nothing.
C15_MemoGrowsInjective == [][MemoStep]_vars /\ []MemoInjective

C15_Witness ==
  /\ pc = "done"
  /\ Cardinality(DOMAIN hoistedMap) >= 3
  /\ \E l \in LiveOfKind(ops, erased, "load") : ops[l].parent \in NewInitializers

\* ------------------------------------------------------------------------
\* Operand x of the operation at position k of a body is a result of a
\* clone or of a load that stands earlier in the body.
DefinedEarlier(body, k, x) ==
  \E j \in 1..(k - 1) :
    /\ body[j] = x[1]
    /\ ops[x[1]].kind \in {"op", "load"}
    /\ x[2] \in 1..ops[x[1]].nres

\* The cloned root of a body: its last ordinary operation.
ClonedRoot(body) ==
  body[CHOOSE j \in DOMAIN body :
         /\ ops[body[j]].kind = "op"
         /\ \A l \in (j + 1)..Len(body) : ops[body[l]].kind # "op"]

StoresOfRoot(body) ==
  /\ \E j \in DOMAIN body : ops[body[j]].kind = "op"
  /\ \A k \in DOMAIN body :
       ops[body[k]].kind = "store" =>
         /\ ops[body[k]].operands[1][1] = ClonedRoot(body)
         /\ hoistedMap[<<ops[ClonedRoot(body)].fn, ops[body[k]].operands[1][2]>>]
              = ops[body[k]].global

\* C16: in every initializer the pass created, each operand refers to a
\* result of a clone or of a load earlier in the same body, never to a value
\* of the input program or of another initializer, and each store stores a
\* result of the cloned root.
C16_InitializerSelfContained ==
  \A i \in NewInitializers :
    /\ \A k \in DOMAIN initBody[i] :
         /\ ops[initBody[i][k]].parent = i
         /\ IsNew(initBody[i][k])
         /\ \A n \in DOMAIN ops[initBody[i][k]].operands :
              DefinedEarlier(initBody[i], k, ops[initBody[i][k]].operands[n])
    /\ StoresOfRoot(initBody[i])

C16_Witness ==
  /\ pc = "done"
  /\ \E i \in NewInitializers :
       /\ \E k \in DOMAIN initBody[i] : ops[initBody[i][k]].kind = "load"
       /\ \E k \in DOMAIN initBody[i] :
            /\ ops[initBody[i][k]].kind = "op"
            /\ Len(ops[initBody[i][k]].operands) >= 2
            /\ ops[initBody[i][k]].operands[1] # ops[initBody[i][k]].operands[2]

\* ------------------------------------------------------------------------
\* The operations of a body a store of the body transitively uses.
RECURSIVE UsedBy(_)
UsedBy(S) ==
  LET T == S \cup UNION {{ops[id].operands[k][1] : k \in DOMAIN ops[id].operands} : id \in S}
  IN IF T = S THEN S ELSE UsedBy(T)

UsedByStores(body) == UsedBy({id \in Range(body) : ops[id].kind = "store"})

ClonesIn(body) == {id \in Range(body) : ops[id].kind = "op"}

LoadsIn(body) == {id \in Range(body) : ops[id].kind = "load"}

\* The transitive producers of the operation x in the input.
ProducersOf(x) == Range(getBackwardSlice(InputOps(input, inputBlock), x))

\* C17 as stated: every operation cloned into an initializer is
\* transitively used by a store of that initializer.
C17_OnlyNeededCloned ==
  \A i \in NewInitializers : ClonesIn(initBody[i]) \subseteq UsedByStores(initBody[i])

\* The input operations whose global a load of the body reads.
LoadedIn(body) ==
  {v[1] : v \in {w \in DOMAIN hoistedMap :
                    \E l \in LoadsIn(body) : ops[l].global = hoistedMap[w]}}

\* C17 amended: every operation cloned into an initializer is the root or
\* a member of its backward slice, cloned once; an operation with a global
\* is cloned in its own initializer only and stands as loads elsewhere; a
\* clone no store transitively uses is a clone of a producer of an
\* operation that stands as loads in that initializer.
C17_SliceClonedButMemoized ==
  /\ \A i \in NewInitializers :
       /\ \A c \in ClonesIn(initBody[i]) :
            /\ ops[c].fn \in ProducersOf(ops[ClonedRoot(initBody[i])].fn)
                              \cup {ops[ClonedRoot(initBody[i])].fn}
            /\ \A d \in ClonesIn(initBody[i]) : ops[d].fn = ops[c].fn => d = c
            /\ c \notin UsedByStores(initBody[i]) =>
                 \E x \in LoadedIn(initBody[i]) : ops[c].fn \in ProducersOf(x)
       /\ \A x \in LoadedIn(initBody[i]) : \A c \in ClonesIn(initBody[i]) : ops[c].fn # x
  /\ \A v \in DOMAIN hoistedMap : Cardinality(ClonesOf(v[1])) = 1

C17_Witness ==
  /\ pc = "done"
  /\ \E i \in NewInitializers :
       /\ LoadsIn(initBody[i]) # {}
       /\ ClonesIn(initBody[i]) \ UsedByStores(initBody[i]) # {}

\* ------------------------------------------------------------------------
\* The block b of a program.
BlockOf(fb, ib, b) == IF b = 0 THEN fb ELSE ib[b]

\* The step that rewrites the operand rw[2] of rw[1] to the load rw[4].
RewritesOnly(rw) ==
  /\ rw[4] \notin DOMAIN ops
  /\ rw[4] \in DOMAIN ops'
  /\ ops'[rw[4]] = Op("load", 0, <<>>, 1, hoistedMap'[rw[3]], ops[rw[1]].parent)
  /\ {id \in (DOMAIN ops') \ (DOMAIN ops) : ops'[id].parent = ops[rw[1]].parent} = {rw[4]}
  /\ ops[rw[1]].operands[rw[2]] = rw[3]
  /\ ops'[rw[1]] = [ops[rw[1]] EXCEPT !.operands[rw[2]] = <<rw[4], 1>>]
  /\ \A id \in (DOMAIN ops) \ {rw[1]} : ops'[id] = ops[id]
  /\ UsesOf(ops', erased', rw[3]) = UsesOf(ops, erased, rw[3]) \ {<<rw[1], rw[2]>>}
  /\ BlockOf(funcBody', initBody', ops[rw[1]].parent)
       = InsertBefore(BlockOf(funcBody, initBody, ops[rw[1]].parent), rw[1], rw[4])
  /\ erased' = erased

RewriteStep ==
  /\ Cardinality(rewritten' \ rewritten) <= 1
  /\ \A rw \in rewritten' \ rewritten : RewritesOnly(rw)

LoadsInProgram ==
  {l \in LiveOfKind(ops, erased, "load") : ops[l].parent \notin NewInitializers}

\* C18: a call of hoistConstExpr puts one load right in front of the
\* consumer and sets the given operand to it; the consumer's other
\* operands, the other uses of the value and every other operation of the
\* program are as before, so the loads in the original program are as many
\* as the rewritten operands.
C18_RewriteChangesOneOperand ==
  /\ [][RewriteStep]_vars
  /\ [](Cardinality(LoadsInProgram) = Cardinality(rewritten))

C18_Witness ==
  /\ pc = "done"
  /\ \E rw \in rewritten : \E k \in DOMAIN ops[rw[1]].operands :
       /\ k # rw[2]
       /\ rw[1] \notin erased
       /\ ops[rw[1]].operands[k] = rw[3]
       /\ rw[3][1] \notin erased
  /\ Cardinality(rewritten) >= 2

\* ------------------------------------------------------------------------
\* The CUDA native executable (native_executable.c).

\* Largest number of entry points of an executable.
MaxEntryPoints == 3
\* Number of distinct pipeline layouts a caller passes (entry points may share one).
MaxLayouts == 2

\* The largest int32_t: the type of entry_point and of max_shared_mem.
Int32Max == 2147483647
Int32Min == (-Int32Max) - 1

\* Conversion of an int32_t to an unsigned type of w >= 32 bits (iree_host_size_t,
\* uint32_t): x >= 0 stays x, x < 0 becomes 2^w + x = (2^w - 2^31) + (x + 2^31).
\* <<0, x>> stands for x and <<1, y>> for (2^w - 2^31) + y; y < 2^31 <= 2^w - 2^31,
\* so the pairs compare as the numbers do.
ToUnsigned(x) == IF x < 0 THEN <<1, (x + Int32Max) + 1>> ELSE <<0, x>>

UnsignedGE(a, b) == a[1] > b[1] \/ (a[1] = b[1] /\ a[2] >= b[2])

\* A range check that compares the ordinal as a signed number.
OrdinalOutOfRange_Signed(ordinal, count) == ordinal >= count

\* Line 202: entry_point >= executable->entry_point_count, int32_t against
\* iree_host_size_t: the usual arithmetic conversions make entry_point unsigned.
OrdinalOutOfRange(ordinal, count) == UnsignedGE(ToUnsigned(ordinal), <<0, count>>)

\* Line 132: shared_memory_sizes[i] > max_shared_mem, uint32_t against int32_t.
SharedMemoryOverMax(size, max_shared_mem) == ~UnsignedGE(ToUnsigned(max_shared_mem), <<0, size>>)

Layouts == 1..MaxLayouts

\* The shared memory sizes of the flatbuffer, and the maxima the device reports.
SharedMemorySizes == {0, 2}
DeviceMaxima == {1, 2}

\* The arguments of create: as many pipeline layouts, shared memory sizes and
\* entry point names as the flatbuffer has entry points.
ExecutableParams ==
  UNION {[entry_point_count : {n},
          pipeline_layouts : [1..n -> Layouts],
          shared_memory_sizes : [1..n -> SharedMemorySizes]] : n \in 0..MaxEntryPoints}

\* An iree_hal_cuda_kernel_params_t of a block the allocator zeroed.
ZeroParams == [layout |-> NULL, function |-> NULL, shared_memory_size |-> 0]

\* What the caller's out_params buffer holds before the first query.
CallerParams == [layout |-> -1, function |-> -1, shared_memory_size |-> -1]

\* Lines 81-94: the block of iree_allocator_malloc, zero-filled, sized for n
\* entry points, after iree_hal_resource_initialize and the store of context.
NewExecutable(n) ==
  [context |-> 1, module |-> NULL, entry_point_count |-> 0, entry_points |-> [k \in 1..n |-> ZeroParams]]

\* Lines 148-155: the parameters of entry point i (0-based) with its function.
KernelParams(params, i, function) ==
  [layout |-> params.pipeline_layouts[i + 1],
   function |-> function,
   shared_memory_size |-> params.shared_memory_sizes[i + 1]]

\* The CUfunction cuModuleGetFunction finds for entry point i (0-based).
FunctionOf(i) == i + 1

\* An iree_status_t: its code and what its message names.
Status(code, message) == [code |-> code, message |-> message]

OkStatus == Status("OK", "")

\* CU_RESULT_TO_STATUS of a failed driver call.
CudaError(call) == Status("INTERNAL", call)

\* A status variable before its first assignment.
NoStatus == Status("NONE", "")

\* Lines 185-192: the calls destroy makes on the struct exe.
DestroyCalls(exe) ==
  [k \in 1..exe.entry_point_count |-> <<"iree_hal_pipeline_layout_release", exe.entry_points[k].layout>>]
    \o (IF exe.module # NULL THEN <<<<"cuModuleUnload", exe.module>>>> ELSE <<>>)
    \o <<<<"iree_allocator_free", exe.context>>>>

\* A destroy that leaves the module loaded.
ExecutableDestroyCalls_NoUnload(ptr, blocks) ==
  IF ptr = NULL THEN <<>>
  ELSE [k \in 1..blocks[ptr].entry_point_count |->
          <<"iree_hal_pipeline_layout_release", blocks[ptr].entry_points[k].layout>>]
         \o <<<<"iree_allocator_free", blocks[ptr].context>>>>

\* iree_hal_executable_destroy(ptr) of line 171 and of the owner: nothing for
\* NULL, else the vtable's destroy (lines 178-195, 213).
ExecutableDestroyCalls(ptr, blocks) == IF ptr = NULL THEN <<>> ELSE DestroyCalls(blocks[ptr])

passVars == <<input, inputBlock, walkVars, sweepVars, irVars>>

\* The state before create is called: no module is under transformation.
ExecutableInit ==
  /\ input = <<>>
  /\ inputBlock = 0
  /\ ops = <<>>
  /\ erased = {}
  /\ funcBody = <<>>
  /\ initBody = <<>>
  /\ module = <<>>
  /\ hoistedMap = <<>>
  /\ pc = "off"
  /\ iterOp = 0
  /\ resIdx = 0
  /\ uses = {}
  /\ allOps = {}
  /\ worklist = {}
  /\ madeChanges = FALSE
  /\ scans = 0
  /\ rewritten = {}
  /\ executable_params \in ExecutableParams
  /\ executable \in {NULL, 1}
  /\ heap = <<>>
  /\ out_executable \in {NULL, 1}
  /\ status = NoStatus
  /\ at = "create"
  /\ index = 0
  /\ calls = <<>>
  /\ entry_point = 0
  /\ out_params = CallerParams
  /\ query_status = NoStatus

\* Lines 46-66: *out_executable = NULL, executable = NULL, the flatbuffer's vectors.
CreateBegin ==
  /\ at = "create"
  /\ out_executable' = NULL
  /\ executable' = NULL
  /\ at' = "malloc"
  /\ UNCHANGED <<executable_params, heap, status, index, calls, entry_point, out_params, query_status>>
  /\ UNCHANGED passVars

\* Lines 85-86, 91: iree_allocator_malloc fails and leaves executable NULL.
MallocFails ==
  /\ at = "malloc"
  /\ status' = Status("RESOURCE_EXHAUSTED", "iree_allocator_malloc")
  /\ at' = "end"
  /\ UNCHANGED <<executable_params, executable, heap, out_executable, index, calls, entry_point,
                 out_params, query_status>>
  /\ UNCHANGED passVars

\* Lines 85-94: the allocation, the resource header and the context.
Malloc ==
  /\ at = "malloc"
  /\ status' = OkStatus
  /\ executable' = 1
  /\ heap' = <<NewExecutable(executable_params.entry_point_count)>>
  /\ calls' = Append(calls, <<"iree_allocator_malloc", 1>>)
  /\ at' = "load"
  /\ UNCHANGED <<executable_params, out_executable, index, entry_point, out_params, query_status>>
  /\ UNCHANGED passVars

\* Lines 98-102, 104: cuModuleLoadDataEx fails; executable->module stays NULL.
ModuleLoadFails ==
  /\ at = "load"
  /\ status' = CudaError("cuModuleLoadDataEx")
  /\ at' = "end"
  /\ UNCHANGED <<executable_params, executable, heap, out_executable, index, calls, entry_point,
                 out_params, query_status>>
  /\ UNCHANGED passVars

\* Lines 98-106: the module is loaded, entry_point_count is stored, i = 0.
ModuleLoad ==
  /\ at = "load"
  /\ status' = OkStatus
  /\ heap' = [heap EXCEPT ![executable].module = 1,
                          ![executable].entry_point_count = executable_params.entry_point_count]
  /\ calls' = Append(calls, <<"cuModuleLoadDataEx", 1>>)
  /\ index' = 0
  /\ at' = "loop"
  /\ UNCHANGED <<executable_params, executable, out_executable, entry_point, out_params, query_status>>
  /\ UNCHANGED passVars

\* The loop body is entered: i < entry_point_count (line 106).
InLoop == at = "loop" /\ index < executable_params.entry_point_count

\* Leaves the loop by break with the status st.
Break(st) ==
  /\ status' = st
  /\ at' = "end"
  /\ UNCHANGED <<executable_params, executable, heap, out_executable, index, calls, entry_point,
                 out_params, query_status>>
  /\ UNCHANGED passVars

\* Lines 111-115: cuModuleGetFunction fails.
GetFunctionFails == InLoop /\ Break(CudaError("cuModuleGetFunction"))

\* Lines 116-121: cuModuleGetFunction succeeds and leaves function NULL.
FunctionNotFound == InLoop /\ Break(Status("NOT_FOUND", "exported module function not found"))

\* Lines 123-131: cuDeviceGetAttribute fails.
GetAttributeFails == InLoop /\ Break(CudaError("cuDeviceGetAttribute"))

\* Lines 132-136, 145: the entry point asks for more shared memory than the device has.
SharedMemoryTooLarge ==
  /\ InLoop
  /\ \E max_shared_mem \in DeviceMaxima :
       SharedMemoryOverMax(executable_params.shared_memory_sizes[index + 1], max_shared_mem)
  /\ Break(Status("INTERNAL", "Requested shared memory size larger than allowed size"))

\* Lines 137-145: cuFuncSetAttribute fails.
SetAttributeFails ==
  /\ InLoop
  /\ \E max_shared_mem \in DeviceMaxima :
       ~SharedMemoryOverMax(executable_params.shared_memory_sizes[index + 1], max_shared_mem)
  /\ Break(CudaError("cuFuncSetAttribute"))

\* Lines 109-155 without a failure: the parameters are stored, the layout is
\* retained, i is incremented (line 106).
Package ==
  /\ InLoop
  /\ \E max_shared_mem \in DeviceMaxima :
       ~SharedMemoryOverMax(executable_params.shared_memory_sizes[index + 1], max_shared_mem)
  /\ status' = OkStatus
  /\ heap' = [heap EXCEPT ![executable].entry_points[index + 1] =
                            KernelParams(executable_params, index, FunctionOf(index))]
  /\ calls' = Append(calls, <<"iree_hal_pipeline_layout_retain",
                              executable_params.pipeline_layouts[index + 1]>>)
  /\ index' = index + 1
  /\ UNCHANGED <<executable_params, executable, out_executable, at, entry_point, out_params, query_status>>
  /\ UNCHANGED passVars

\* Line 106: i reached entry_point_count.
LoopEnd ==
  /\ at = "loop"
  /\ ~(index < executable_params.entry_point_count)
  /\ at' = "end"
  /\ UNCHANGED <<executable_params, executable, heap, out_executable, status, index, calls,
                 entry_point, out_params, query_status>>
  /\ UNCHANGED passVars

\* Lines 168-169, 175: create returns the executable.
ReturnExecutable ==
  /\ at = "end"
  /\ status = OkStatus
  /\ out_executable' = executable
  /\ at' = "returned"
  /\ UNCHANGED <<executable_params, executable, heap, status, index, calls, entry_point,
                 out_params, query_status>>
  /\ UNCHANGED passVars

\* Lines 170-175: create destroys what it built and returns the failure.
ReturnFailure ==
  /\ at = "end"
  /\ status # OkStatus
  /\ calls' = calls \o ExecutableDestroyCalls(executable, heap)
  /\ heap' = <<>>
  /\ at' = "returned"
  /\ UNCHANGED <<executable_params, executable, out_executable, status, index, entry_point,
                 out_params, query_status>>
  /\ UNCHANGED passVars

\* The caller owns an executable that create returned and has not destroyed.
Live == at = "returned" /\ out_executable # NULL /\ out_executable \in DOMAIN heap

\* What memcpy reads at entry_points[ordinal]: the element, or, outside the
\* array, whatever lies there.
ReadEntryPoint(exe, ordinal) ==
  IF ordinal + 1 \in DOMAIN exe.entry_points
    THEN {exe.entry_points[ordinal + 1]}
    ELSE {ZeroParams, CallerParams} \cup Range(exe.entry_points)

\* The ordinals queried: the ends of int32_t, -1, and the ordinals up to one
\* past the largest count.
Ordinals == {Int32Min, -1, Int32Max} \cup (0..(MaxEntryPoints + 1))

\* Lines 197-209: iree_hal_cuda_native_executable_entry_point_kernel_params.
EntryPointKernelParams ==
  /\ Live
  /\ \E ordinal \in Ordinals :
       /\ entry_point' = ordinal
       /\ IF OrdinalOutOfRange(ordinal, heap[out_executable].entry_point_count)
            THEN /\ query_status' = Status("OUT_OF_RANGE", "invalid entry point ordinal")
                 /\ out_params' = out_params
            ELSE /\ query_status' = OkStatus
                 /\ out_params' \in ReadEntryPoint(heap[out_executable], ordinal)
  /\ UNCHANGED <<executable_params, executable, heap, out_executable, status, at, index, calls>>
  /\ UNCHANGED passVars

\* The owner's iree_hal_executable_destroy (lines 178-195).
Destroy ==
  /\ Live
  /\ calls' = calls \o ExecutableDestroyCalls(out_executable, heap)
  /\ heap' = <<>>
  /\ at' = "destroyed"
  /\ UNCHANGED <<executable_params, executable, out_executable, status, index, entry_point,
                 out_params, query_status>>
  /\ UNCHANGED passVars

ExecutableNext ==
  \/ CreateBegin
  \/ MallocFails
  \/ Malloc
  \/ ModuleLoadFails
  \/ ModuleLoad
  \/ GetFunctionFails
  \/ FunctionNotFound
  \/ GetAttributeFails
  \/ SharedMemoryTooLarge
  \/ SetAttributeFails
  \/ Package
  \/ LoopEnd
  \/ ReturnExecutable
  \/ ReturnFailure
  \/ EntryPointKernelParams
  \/ Destroy

ExecutableSpec == ExecutableInit /\ [][ExecutableNext]_vars


\* ------------------------------------------------------------------------
\* Claims on the CUDA native executable.

\* The positions in calls of the call name on x.
CallsOf(name, x) == {k \in DOMAIN calls : calls[k] = <<name, x>>}

Retains(l) == CallsOf("iree_hal_pipeline_layout_retain", l)

Releases(l) == CallsOf("iree_hal_pipeline_layout_release", l)

\* Every release of a layout has a retain of its own before it.
ReleasesFollowRetains ==
  \A l \in Layouts : \A k \in Releases(l) :
    Cardinality({j \in Releases(l) : j <= k}) <= Cardinality({j \in Retains(l) : j < k})

\* The entry points of the arguments whose pipeline layout is l.
EntryPointsOf(l) ==
  {k \in 1..executable_params.entry_point_count : executable_params.pipeline_layouts[k] = l}

ModuleLoads == CallsOf("cuModuleLoadDataEx", 1)

ModuleUnloads == CallsOf("cuModuleUnload", 1)

\* C19: when create has returned a failure, *out_executable is NULL, every
\* layout has as many releases as retains and each release follows a retain
\* of its own (a release of a slot never retained is a release of NULL), the
\* module is unloaded once iff it was loaded, and the block is freed; when it
\* has returned OK, *out_executable is the executable, each layout holds one
\* retain per entry point that uses it and no release, and the module stays
\* loaded.
C19_CreateAllOrNothing ==
  (at = "returned") =>
    IF status = OkStatus
      THEN /\ out_executable # NULL
           /\ out_executable \in DOMAIN heap
           /\ \A l \in Layouts :
                /\ Cardinality(Retains(l)) = Cardinality(EntryPointsOf(l))
                /\ Releases(l) = {}
           /\ \A k \in 1..executable_params.entry_point_count :
                heap[out_executable].entry_points[k].layout = executable_params.pipeline_layouts[k]
           /\ Cardinality(ModuleLoads) = 1
           /\ ModuleUnloads = {}
      ELSE /\ out_executable = NULL
           /\ \A l \in Layouts : Cardinality(Releases(l)) = Cardinality(Retains(l))
           /\ ReleasesFollowRetains
           /\ Cardinality(ModuleUnloads) = Cardinality(ModuleLoads)
           /\ Cardinality(ModuleLoads) <= 1
           /\ heap = <<>>
           /\ Cardinality(CallsOf("iree_allocator_free", 1)) = Cardinality(CallsOf("iree_allocator_malloc", 1))

\* create failed on the shared memory size of its third entry point, after it
\* retained one layout twice; destroy released that layout twice and the
\* third, zeroed slot as NULL, and unloaded the module.
C19_Witness ==
  /\ at = "returned"
  /\ status.code = "INTERNAL"
  /\ status.message = "Requested shared memory size larger than allowed size"
  /\ index = 2
  /\ \E l \in Layouts : Cardinality(Retains(l)) = 2 /\ Cardinality(Releases(l)) = 2
  /\ CallsOf("iree_hal_pipeline_layout_release", NULL) # {}
  /\ ModuleUnloads # {}

\* C20: a query on a live executable with an ordinal in [0, entry_point_count)
\* returns OK with out_params the stored parameters of that entry point; with
\* any other ordinal it returns OUT_OF_RANGE and leaves out_params as it was;
\* it reads entry_points only when it returns OK, and then inside the array.
C20_QueryStep ==
  (Live /\ Live') =>
    LET exe == heap[out_executable]
    IN /\ IF entry_point' \in 0..(exe.entry_point_count - 1)
            THEN /\ query_status' = OkStatus
                 /\ out_params' = exe.entry_points[entry_point' + 1]
            ELSE /\ query_status'.code = "OUT_OF_RANGE"
                 /\ out_params' = out_params
       /\ (query_status' = OkStatus) => (entry_point' + 1 \in DOMAIN exe.entry_points)

C20_KernelParamsRangeChecked == [][C20_QueryStep]_vars

\* A negative ordinal was rejected after a query that had filled out_params.
C20_Witness ==
  /\ Live
  /\ entry_point < 0
  /\ query_status.code = "OUT_OF_RANGE"
  /\ out_params.function = FunctionOf(1)
  /\ heap[out_executable].entry_point_count >= 2

====
